---- MODULE Spec2Model ----
(***************************************************************************)
(* A model of the YouTube transcript relay of src/app.py and               *)
(* src/transcript.py: the process-wide sliding-window rate limiter, the    *)
(* video-id extractor, the three-strategy transcript fetcher, the metadata *)
(* scraper and the POST /api/transcript handler that strings them          *)
(* together.                                                               *)
(*                                                                         *)
(* Text is modelled as sequences of one-character strings, time.time() as  *)
(* an integer number of seconds.                                           *)
(***************************************************************************)
EXTENDS Integers, Sequences, FiniteSets, TLC

VARIABLES
    \* ---- configuration and module-level state (app.py 27-31)
    MAX_REQUESTS_PER_MINUTE,  \* int(os.getenv('MAX_REQUESTS_PER_MINUTE', '30'))
    request_timestamps,       \* the global list of admitted timestamps
    \* ---- environment
    clock,                    \* what time.time() returns
    \* ---- history of the rate limiter (not program state)
    calls,                    \* rate_limit_check calls made so far
    ticks,                    \* clock advances made so far
    lastResult,               \* return value of the last completed call
    admitted,                 \* admission times of the calls that returned True
    episode,                  \* bookkeeping of the capacity freed by expiry
    \* ---- concurrent request handlers inside rate_limit_check
    pc,                       \* handler -> position in rate_limit_check
    now,                      \* handler -> its local `now`
    filtered,                 \* handler -> the list its comprehension built
    overlapped,               \* two handlers were inside rate_limit_check at once
    \* ---- which of the two source files is running
    file,                     \* "app" (src/app.py) or "transcript" (src/transcript.py)
    \* ---- one fetch_transcript call
    fpc,                      \* position in fetch_transcript
    transcript_text,          \* its local transcript_text
    e1,                       \* str(e1), the error text of the default method
    tracks,                   \* how many tracks list_transcripts returned
    track,                    \* the track the loop of method 3 is at
    result,                   \* the (text, success, error) it returned
    provider_calls,           \* history: the provider calls made, in order
    \* ---- one extract_video_id call
    youtube_url,              \* its argument
    extracted,                \* what it returned, once it has
    \* ---- the POST /api/transcript handler
    hpc,                      \* position in get_transcript
    body,                     \* request.get_json(), a JSON object
    watch_page,               \* what the fetch of the watch page produced
    response,                 \* the (json, status) the handler returned
    steps,                    \* history: the steps run for the request
    requests,                 \* requests received so far
    results,                  \* the results list of get_batch_transcripts
    metadata                  \* what get_video_metadata returned, once it has

rlVars   == <<MAX_REQUESTS_PER_MINUTE, request_timestamps, clock, calls, ticks,
              lastResult, admitted, episode>>
raceVars == <<pc, now, filtered, overlapped>>
fetchVars == <<fpc, transcript_text, e1, tracks, track, result, provider_calls>>
\* everything but the rate limiter
exVars   == <<youtube_url, extracted>>
httpVars == <<hpc, body, watch_page, response, steps, requests, results, metadata>>
appVars  == <<file, fetchVars, exVars, httpVars>>
vars     == <<rlVars, raceVars, appVars>>

----------------------------------------------------------------------------
(* Bounds of the model *)

\* largest configured MAX_REQUESTS_PER_MINUTE that is explored
MaxLimit == 3
\* rate_limit_check calls per behaviour
MaxCalls == 5
\* clock advances per behaviour
MaxTicks == 3
\* concurrent request handlers
NumHandlers == 2
\* requests the POST /api/transcript handler receives per behaviour
MaxRequests == 2
\* rate_limit_check calls per behaviour of the concurrent handlers
MaxRaceCalls == 2
\* clock advances per behaviour of the concurrent handlers
MaxRaceTicks == 1

\* the one-minute window of `now - ts < 60`
WINDOW == 60

\* what lastResult holds: nothing yet, or the boolean a call returned
NoResult == "none"
Returned(b) == IF b THEN "True" ELSE "False"

Handlers == 1 .. NumHandlers

\* the amounts by which the clock advances between two observations
ClockSteps == {1, WINDOW \div 2, WINDOW - 1, WINDOW}

----------------------------------------------------------------------------
(* Sequences *)

Min(a, b) == IF a < b THEN a ELSE b

Range(s) == {s[i] : i \in DOMAIN s}

\* number of entries of s equal to x
Count(s, x) == Cardinality({i \in DOMAIN s : s[i] = x})

----------------------------------------------------------------------------
(* Text: a Python str is a sequence of one-character strings *)

\* the characters \s matches and str.strip() removes
Whitespace == {" ", "\n", "\t"}

\* s[:n]
Take(s, n) == SubSeq(s, 1, Min(Len(s), n))

\* s[n:]
Drop(s, n) == SubSeq(s, n + 1, Len(s))

\* " ".join(parts)
RECURSIVE Join(_)
Join(parts) ==
    IF parts = << >> THEN << >>
    ELSE IF Len(parts) = 1 THEN parts[1]
    ELSE parts[1] \o <<" ">> \o Join(Tail(parts))

\* the index of the "]" that closes a "[" at s[1] under the pattern \[.*?\]:
\* the first "]" of s, provided no newline comes before it ("." does not
\* match a newline); 0 when the pattern does not match at s[1]
ClosingBracket(s) ==
    LET closers == {j \in 2 .. Len(s) : s[j] = "]"}
    IN  IF closers = {} THEN 0
        ELSE LET j == CHOOSE c \in closers : \A d \in closers : c <= d
             IN  IF \E k \in 2 .. j - 1 : s[k] = "\n" THEN 0 ELSE j

\* mutant: only the brackets themselves are removed, their content stays
RECURSIVE RemoveBracketed_keeps_content(_)
RemoveBracketed_keeps_content(s) ==
    IF s = << >> THEN << >>
    ELSE IF Head(s) \in {"[", "]"}
         THEN RemoveBracketed_keeps_content(Tail(s))
         ELSE <<Head(s)>> \o RemoveBracketed_keeps_content(Tail(s))

\* re.sub(r'\[.*?\]', '', s): leftmost non-overlapping matches, each as short
\* as possible, are deleted
RECURSIVE RemoveBracketed(_)
RemoveBracketed(s) ==
    IF s = << >> THEN << >>
    ELSE IF Head(s) = "[" /\ ClosingBracket(s) > 0
         THEN RemoveBracketed(Drop(s, ClosingBracket(s)))
         ELSE <<Head(s)>> \o RemoveBracketed(Tail(s))

\* re.sub(r'\s+', ' ', s): every run of whitespace becomes one space
RECURSIVE CollapseWhitespace(_)
CollapseWhitespace(s) ==
    IF s = << >> THEN << >>
    ELSE IF Head(s) \in Whitespace
         THEN IF Len(s) > 1 /\ s[2] \in Whitespace
              THEN CollapseWhitespace(Tail(s))
              ELSE <<" ">> \o CollapseWhitespace(Tail(s))
         ELSE <<Head(s)>> \o CollapseWhitespace(Tail(s))

RECURSIVE LStrip(_)
LStrip(s) ==
    IF s # << >> /\ Head(s) \in Whitespace THEN LStrip(Tail(s)) ELSE s

RECURSIVE RStrip(_)
RStrip(s) ==
    IF s # << >> /\ s[Len(s)] \in Whitespace
    THEN RStrip(SubSeq(s, 1, Len(s) - 1))
    ELSE s

\* s.strip()
Strip(s) == RStrip(LStrip(s))

\* the cleaning of app.py 130-131
CleanTranscript(s) == Strip(CollapseWhitespace(RemoveBracketed(s)))

\* all texts over an alphabet up to a length
RECURSIVE TextsUpTo(_, _)
TextsUpTo(alphabet, n) ==
    IF n = 0 THEN {<< >>}
    ELSE LET shorter == TextsUpTo(alphabet, n - 1)
         IN  shorter \cup {Append(t, c) : t \in shorter, c \in alphabet}

\* n times the character c
Repeat(c, n) == [i \in 1 .. n |-> c]

----------------------------------------------------------------------------
(* rate_limit_check, app.py 33-45 (identical in transcript.py 33-45) *)

\* mutant: nothing is ever purged
Unexpired_keep_all(timestamps, t) == timestamps

\* mutant: an entry of age exactly 60 is still dropped, and so is one of age 59
Unexpired_short_window(timestamps, t) ==
    LET Fresh(ts) == t - ts < WINDOW - 1
    IN  SelectSeq(timestamps, Fresh)

\* [ts for ts in request_timestamps if now - ts < 60]
Unexpired(timestamps, t) ==
    LET Fresh(ts) == t - ts < WINDOW
    IN  SelectSeq(timestamps, Fresh)

\* mutant: the limit counts as reached only once it is exceeded
LimitReached_when_exceeded(timestamps, max) == Len(timestamps) > max

\* if len(request_timestamps) >= MAX_REQUESTS_PER_MINUTE
LimitReached(timestamps, max) == Len(timestamps) >= max

\* mutant: an admitted call is not recorded
rate_limit_check_admits_unrecorded(timestamps, t, max) ==
    LET kept == Unexpired(timestamps, t)
    IN  IF LimitReached(kept, max)
        THEN [timestamps |-> kept, ret |-> FALSE]
        ELSE [timestamps |-> kept, ret |-> TRUE]

\* mutant: the comparison is > instead of >=
rate_limit_check_off_by_one(timestamps, t, max) ==
    LET kept == Unexpired(timestamps, t)
    IN  IF Len(kept) > max
        THEN [timestamps |-> kept, ret |-> FALSE]
        ELSE [timestamps |-> Append(kept, t), ret |-> TRUE]

\* mutant: the timestamp is appended before the comparison
rate_limit_check_records_rejected(timestamps, t, max) ==
    LET kept == Unexpired(timestamps, t)
    IN  IF Len(kept) >= max
        THEN [timestamps |-> Append(kept, t), ret |-> FALSE]
        ELSE [timestamps |-> Append(kept, t), ret |-> TRUE]

\* one whole sequential call: the list it leaves behind and what it returns
rate_limit_check(timestamps, t, max) ==
    LET kept == Unexpired(timestamps, t)
    IN  IF LimitReached(kept, max)
        THEN [timestamps |-> kept, ret |-> FALSE]
        ELSE [timestamps |-> Append(kept, t), ret |-> TRUE]

----------------------------------------------------------------------------
(* fetch_transcript: app.py 75-140, transcript.py 65-114 *)

Files == {"app", "transcript"}

\* the characters segment texts are made of
SegmentChars == {"a", "[", "]", " ", "\n"}

\* longest text of a single segment
MaxSegLen == 3
\* most tracks list_transcripts returns
MaxTracks == 2
\* longest error text of the provider
MaxErrLen == 101

\* str(e1)[:100]
ErrCut == 100

\* what a successful provider call returns: the texts of its segments. Any
\* one segment up to MaxSegLen, or two short ones, or none at all.
Responses ==
    {<< >>}
        \cup {<<t>> : t \in TextsUpTo(SegmentChars, MaxSegLen)}
        \cup {<<t, u>> : t, u \in TextsUpTo(SegmentChars, 1)}

\* str(e) of what a failing provider call raises
ErrTexts == {Repeat(c, n) : c \in {"x", "y"}, n \in {0, 1, ErrCut, MaxErrLen}}

\* a diagnostic: a fixed text followed by a piece of a provider error text
Message(fixed, tail) == [fixed |-> fixed, tail |-> tail]
NoMessage == Message("", << >>)

\* the fixed texts of the diagnostics
FixedTexts == {"No accessible transcripts found", "No transcript text extracted",
               "No transcript available: "}

NoResultYet == [text |-> << >>, success |-> FALSE, error |-> NoMessage]

\* mutant: the error text is passed on whole
Truncated_not_cut(e) == e

\* str(e1)[:100]
Truncated(e) == Take(e, ErrCut)

\* mutant: success also requires the cleaned text to be non-empty
Finish_requires_clean_text(text) ==
    IF CleanTranscript(text) # << >>
    THEN [text |-> CleanTranscript(text), success |-> TRUE, error |-> NoMessage]
    ELSE [text |-> << >>, success |-> FALSE,
          error |-> Message("No transcript text extracted", << >>)]

\* app.py 128-135: the return after the chain of methods
Finish(text) ==
    IF text # << >>
    THEN [text |-> CleanTranscript(text), success |-> TRUE, error |-> NoMessage]
    ELSE [text |-> << >>, success |-> FALSE,
          error |-> Message("No transcript text extracted", << >>)]

\* the end of method 3: app.py 121-122 returns at once when no track gave
\* text; transcript.py has no such return and falls through to the final test
AfterTracks(f, text) ==
    IF f = "app" /\ text = << >>
    THEN [text |-> << >>, success |-> FALSE,
          error |-> Message("No accessible transcripts found", << >>)]
    ELSE Finish(text)

\* app.py 124-126: list_transcripts raised
EnumerationFailed(err1) ==
    [text |-> << >>, success |-> FALSE,
     error |-> Message("No transcript available: ", Truncated(err1))]

\* mutant: the loop over the tracks has no break
TrackLoop_no_break(fetched, k, n) == IF k < n THEN "next" ELSE "return"

\* app.py 111-119: break on the first track that was fetched, continue after
\* one that raised
TrackLoop(fetched, k, n) ==
    IF fetched THEN "return"
    ELSE IF k < n THEN "next" ELSE "return"

Called(name, k, ok, text) == [call |-> name, track |-> k, ok |-> ok, text |-> text]

NoFetch ==
    /\ fpc = "off"
    /\ transcript_text = << >>
    /\ e1 = << >>
    /\ tracks = 0
    /\ track = 0
    /\ result = NoResultYet
    /\ provider_calls = << >>

\* app.py 78-81: entry, the politeness pause, transcript_text = ""
FetchStart ==
    /\ fpc = "method1"
    /\ transcript_text = << >>
    /\ e1 = << >>
    /\ tracks = 0
    /\ track = 0
    /\ result = NoResultYet
    /\ provider_calls = << >>

\* app.py 84-90: YouTubeTranscriptApi.get_transcript(video_id)
Method1(R, E) ==
    /\ fpc = "method1"
    /\ \/ \E segments \in R :
            /\ transcript_text' = Join(segments)
            /\ result' = Finish(Join(segments))
            /\ provider_calls' = Append(provider_calls,
                                        Called("get_transcript", 0, TRUE, Join(segments)))
            /\ fpc' = "done"
            /\ e1' = e1
       \/ \E err \in E :
            /\ e1' = err
            /\ provider_calls' = Append(provider_calls,
                                        Called("get_transcript", 0, FALSE, << >>))
            /\ fpc' = "method2"
            /\ UNCHANGED <<transcript_text, result>>
    /\ UNCHANGED <<tracks, track>>
    /\ UNCHANGED <<rlVars, raceVars, file, exVars, httpVars>>

\* app.py 93-101: get_transcript(video_id, languages=[...])
Method2(R, E) ==
    /\ fpc = "method2"
    /\ \/ \E segments \in R :
            /\ transcript_text' = Join(segments)
            /\ result' = Finish(Join(segments))
            /\ provider_calls' = Append(provider_calls,
                                        Called("get_transcript_languages", 0, TRUE,
                                               Join(segments)))
            /\ fpc' = "done"
       \/ \E err \in E :
            /\ provider_calls' = Append(provider_calls,
                                        Called("get_transcript_languages", 0, FALSE, << >>))
            /\ fpc' = "method3"
            /\ UNCHANGED <<transcript_text, result>>
    /\ UNCHANGED <<e1, tracks, track>>
    /\ UNCHANGED <<rlVars, raceVars, file, exVars, httpVars>>

\* app.py 104-109 and 124-126: list_transcripts(video_id)
Method3List(E) ==
    /\ fpc = "method3"
    /\ \/ \E n \in 0 .. MaxTracks :
            /\ tracks' = n
            /\ provider_calls' = Append(provider_calls,
                                        Called("list_transcripts", 0, TRUE, << >>))
            /\ IF n = 0
               THEN /\ result' = AfterTracks(file, transcript_text)
                    /\ fpc' = "done"
                    /\ track' = track
               ELSE /\ track' = 1
                    /\ fpc' = "tracks"
                    /\ result' = result
       \/ \E err \in E :
            /\ result' = EnumerationFailed(e1)
            /\ provider_calls' = Append(provider_calls,
                                        Called("list_transcripts", 0, FALSE, << >>))
            /\ fpc' = "done"
            /\ UNCHANGED <<tracks, track>>
    /\ UNCHANGED <<transcript_text, e1>>
    /\ UNCHANGED <<rlVars, raceVars, file, exVars, httpVars>>

\* app.py 111-122: transcript.fetch() of the track the loop is at
FetchTrack(R, E) ==
    /\ fpc = "tracks"
    /\ \E fetched \in BOOLEAN :
         \E segments \in (IF fetched THEN R ELSE {<< >>}) :
           \E err \in (IF fetched THEN {<< >>} ELSE E) :
             LET text == IF fetched THEN Join(segments) ELSE transcript_text
             IN  /\ transcript_text' = text
                 /\ provider_calls' = Append(provider_calls,
                                             Called("fetch", track, fetched,
                                                    IF fetched THEN text ELSE << >>))
                 /\ IF TrackLoop(fetched, track, tracks) = "next"
                    THEN /\ track' = track + 1
                         /\ UNCHANGED <<fpc, result>>
                    ELSE /\ result' = AfterTracks(file, text)
                         /\ fpc' = "done"
                         /\ track' = track
    /\ UNCHANGED <<e1, tracks>>
    /\ UNCHANGED <<rlVars, raceVars, file, exVars, httpVars>>

----------------------------------------------------------------------------
(* extract_video_id: app.py 47-73, transcript.py 47-63 *)

\* len(video_id) == 11
IdLength == 11

\* pat occurs in s at index i
OccursAt(s, pat, i) ==
    /\ i >= 1
    /\ i + Len(pat) - 1 <= Len(s)
    /\ SubSeq(s, i, i + Len(pat) - 1) = pat

Occurrences(s, pat) == {i \in 1 .. Len(s) : OccursAt(s, pat, i)}

\* pat in s
Contains(s, pat) == Occurrences(s, pat) # {}

Smallest(S) == CHOOSE x \in S : \A y \in S : x <= y
Largest(S) == CHOOSE x \in S : \A y \in S : x >= y

\* s.split(pat)[-1], for a pat that occurs in s and cannot overlap itself
AfterLast(s, pat) == Drop(s, Largest(Occurrences(s, pat)) + Len(pat) - 1)

\* s.split(pat)[0]
BeforeFirst(s, pat) ==
    IF Contains(s, pat) THEN Take(s, Smallest(Occurrences(s, pat)) - 1) ELSE s

\* a JSON string, and any JSON value that is not a string
Str(text) == [type |-> "string", text |-> text]
NotAString == [type |-> "other", text |-> << >>]

\* Optional[str]
None == [found |-> FALSE, id |-> << >>]
Some(id) == [found |-> TRUE, id |-> id]

WATCH    == <<"w", "a", "t", "c", "h", "?", "v", "=">>
YOUTU_BE == <<"y", "o", "u", "t", "u", ".", "b", "e", "/">>
EMBED    == <<"e", "m", "b", "e", "d", "/">>
YOUTUBE_COM == <<"y", "o", "u", "t", "u", "b", "e", ".", "c", "o", "m", "/">>

\* [^"&?\/\s]
IdChar(c) == c \notin ({"\"", "&", "?", "/"} \cup Whitespace)

\* ([^"&?\/\s]{11}) matches at s[i]
IdAt(s, i) ==
    /\ i >= 1
    /\ i + IdLength - 1 <= Len(s)
    /\ \A k \in i .. i + IdLength - 1 : IdChar(s[k])

\* "." matches every character of s[i..j]
NoNewline(s, i, j) == \A k \in i .. j : s[k] # "\n"

\* The fallback pattern of app.py 60,
\*   (?:youtube\.com\/(?:[^\/]+\/.+\/|(?:v|e(?:mbed)?)\/|.*[?&]v=)|youtu\.be\/)
\*   ([^"&?\/\s]{11})
\* tried at index p of s: the index at which the captured group starts, 0 when
\* the pattern does not match at p. The alternatives are tried in their
\* order, the greedy ".+" and ".*" longest first.
GroupStart(s, p) ==
    IF OccursAt(s, YOUTUBE_COM, p)
    THEN LET q == p + Len(YOUTUBE_COM)
             slashes == {f \in q .. Len(s) : s[f] = "/"}
             f == IF slashes = {} THEN 0 ELSE Smallest(slashes)
             \* [^\/]+\/.+\/ : a segment, a slash, at least one character, a slash
             deep == IF f > q
                     THEN {g \in f + 2 .. Len(s) :
                             s[g] = "/" /\ NoNewline(s, f + 1, g - 1) /\ IdAt(s, g + 1)}
                     ELSE {}
             \* (?:v|e(?:mbed)?)\/
             short == {k \in {2, 6} :
                         /\ \/ OccursAt(s, <<"v", "/">>, q) /\ k = 2
                            \/ OccursAt(s, <<"e", "/">>, q) /\ k = 2
                            \/ OccursAt(s, EMBED, q) /\ k = 6
                         /\ IdAt(s, q + k)}
             \* .*[?&]v=
             query == {h \in q .. Len(s) :
                         /\ NoNewline(s, q, h - 1)
                         /\ s[h] \in {"?", "&"}
                         /\ OccursAt(s, <<"v", "=">>, h + 1)
                         /\ IdAt(s, h + 3)}
         IN  IF deep # {} THEN Largest(deep) + 1
             ELSE IF short # {} THEN q + Largest(short)
             ELSE IF query # {} THEN Largest(query) + 3
             ELSE 0
    ELSE IF OccursAt(s, YOUTU_BE, p) /\ IdAt(s, p + Len(YOUTU_BE))
    THEN p + Len(YOUTU_BE)
    ELSE 0

\* match = re.search(pattern, youtube_url); match.group(1) if match else None
RegexFallback(s) ==
    LET starts == {p \in 1 .. Len(s) : GroupStart(s, p) > 0}
    IN  IF starts = {} THEN None
        ELSE LET g == GroupStart(s, Smallest(starts))
             IN  Some(SubSeq(s, g, g + IdLength - 1))

\* mutant: a rule whose candidate is not 11 characters long falls through to
\* the next rule
Candidate_falls_through(s) ==
    LET w == BeforeFirst(AfterLast(s, WATCH), <<"&">>)
        y == BeforeFirst(AfterLast(s, YOUTU_BE), <<"?">>)
        e == BeforeFirst(AfterLast(s, EMBED), <<"?">>)
    IN  IF Contains(s, WATCH) /\ Len(w) = IdLength THEN Some(w)
        ELSE IF Contains(s, YOUTU_BE) /\ Len(y) = IdLength THEN Some(y)
        ELSE IF Contains(s, EMBED) /\ Len(e) = IdLength THEN Some(e)
        ELSE RegexFallback(s)

\* app.py 52-62: the candidate the first rule that applies produces
Candidate(s) ==
    IF Contains(s, WATCH) THEN Some(BeforeFirst(AfterLast(s, WATCH), <<"&">>))
    ELSE IF Contains(s, YOUTU_BE) THEN Some(BeforeFirst(AfterLast(s, YOUTU_BE), <<"?">>))
    ELSE IF Contains(s, EMBED) THEN Some(BeforeFirst(AfterLast(s, EMBED), <<"?">>))
    ELSE RegexFallback(s)

\* mutant: any non-empty candidate is accepted
Accepted_any_length(candidate) ==
    IF candidate.found /\ candidate.id # << >> THEN candidate ELSE None

\* app.py 64-69: if video_id and len(video_id) == 11
Accepted(candidate) ==
    IF candidate.found /\ candidate.id # << >> /\ Len(candidate.id) = IdLength
    THEN candidate
    ELSE None

\* extract_video_id of file f. A url that is not a str makes `in`, `.split`
\* or re.search raise, and the except clause returns None. transcript.py
\* returns the candidate as it is.
extract_video_id(f, url) ==
    IF url.type # "string" THEN None
    ELSE IF f = "app" THEN Accepted(Candidate(url.text))
    ELSE Candidate(url.text)

\* if not video_id: what the callers take for "no id"
NoVideoId(id) == ~id.found \/ id.id = << >>

NotExtracted == [done |-> FALSE, id |-> None]

NoExtraction ==
    /\ youtube_url = NotAString
    /\ extracted = NotExtracted

----------------------------------------------------------------------------
(* get_video_metadata: app.py 142-226, transcript.py 116-191 *)

UnknownTitle    == <<"U", "n", "k", "n", "o", "w", "n", " ", "T", "i", "t", "l", "e">>
Unknown         == <<"U", "n", "k", "n", "o", "w", "n">>
WatchUrlPrefix  == <<"h", "t", "t", "p", "s", ":", "/", "/", "w", "w", "w", ".", "y", "o", "u", "t", "u", "b", "e", ".", "c", "o", "m", "/", "w", "a", "t", "c", "h", "?", "v", "=">>
YouTubeSuffix   == <<" ", "-", " ", "Y", "o", "u", "T", "u", "b", "e">>

DigitChars == <<"0", "1", "2", "3", "4", "5", "6", "7", "8", "9">>

IsDigit(c) == \E d \in DOMAIN DigitChars : DigitChars[d] = c

DigitValue(c) == (CHOOSE d \in DOMAIN DigitChars : DigitChars[d] = c) - 1

\* int(digits)
RECURSIVE IntOf(_)
IntOf(digits) ==
    IF digits = << >> THEN 0
    ELSE 10 * IntOf(SubSeq(digits, 1, Len(digits) - 1)) + DigitValue(digits[Len(digits)])

\* str(n) of an int n >= 0, as an f-string renders it
RECURSIVE StrOf(_)
StrOf(n) ==
    IF n < 10 THEN <<DigitChars[n + 1]>>
    ELSE StrOf(n \div 10) \o <<DigitChars[(n % 10) + 1]>>

\* the length of the run of digits that starts at s[i]
RECURSIVE DigitRun(_, _)
DigitRun(s, i) ==
    IF i <= Len(s) /\ IsDigit(s[i]) THEN 1 + DigitRun(s, i + 1) ELSE 0

\* (?:(\d+)X)? tried at s[i]: the digits captured (none when the group does
\* not take part) and the index after it
Component(s, i, unit) ==
    LET n == DigitRun(s, i)
    IN  IF n > 0 /\ i + n <= Len(s) /\ s[i + n] = unit
        THEN [digits |-> SubSeq(s, i, i + n - 1), next |-> i + n + 1]
        ELSE [digits |-> << >>, next |-> i]

\* re.match(r'PT(?:(\d+)H)?(?:(\d+)M)?(?:(\d+)S)?', s) for an s that starts
\* with "PT": the match never fails, a group that did not take part counts 0
ParseDuration(s) ==
    LET h  == Component(s, 3, "H")
        m  == Component(s, h.next, "M")
        sc == Component(s, m.next, "S")
    IN  [hours |-> IntOf(h.digits), minutes |-> IntOf(m.digits),
         seconds |-> IntOf(sc.digits)]

\* mutant: a component that is 0 is left out
FormatDuration_drops_zero(d) ==
    IF d.hours > 0
    THEN StrOf(d.hours) \o <<"h", " ">> \o StrOf(d.minutes) \o <<"m", " ">>
             \o StrOf(d.seconds) \o <<"s">>
    ELSE IF d.minutes > 0
    THEN StrOf(d.minutes) \o <<"m">>
             \o (IF d.seconds > 0 THEN <<" ">> \o StrOf(d.seconds) \o <<"s">> ELSE << >>)
    ELSE StrOf(d.seconds) \o <<"s">>

\* app.py 198-203
FormatDuration(d) ==
    IF d.hours > 0
    THEN StrOf(d.hours) \o <<"h", " ">> \o StrOf(d.minutes) \o <<"m", " ">>
             \o StrOf(d.seconds) \o <<"s">>
    ELSE IF d.minutes > 0
    THEN StrOf(d.minutes) \o <<"m", " ">> \o StrOf(d.seconds) \o <<"s">>
    ELSE StrOf(d.seconds) \o <<"s">>

\* s.startswith(prefix)
StartsWith(s, prefix) == OccursAt(s, prefix, 1)

\* s.replace(pat, '')
RECURSIVE RemoveAll(_, _)
RemoveAll(s, pat) ==
    IF s = << >> THEN << >>
    ELSE IF OccursAt(s, pat, 1) THEN RemoveAll(Drop(s, Len(pat)), pat)
    ELSE <<Head(s)>> \o RemoveAll(Tail(s), pat)

\* A <meta> tag as soup.find sees it: not in the page, in the page without a
\* content attribute, or with one.
NoTag == [present |-> FALSE, has_content |-> FALSE, content |-> << >>]
BareTag == [present |-> TRUE, has_content |-> FALSE, content |-> << >>]
Tag(content) == [present |-> TRUE, has_content |-> TRUE, content |-> content]

\* The value under 'duration' of a JSON-LD object: the key is missing, or the
\* value is a string, or another value that is true or false as a condition.
NoDuration == [kind |-> "absent", text |-> << >>]
DurationText(text) == [kind |-> "string", text |-> text]
DurationOther(truthy) == [kind |-> IF truthy THEN "truthy" ELSE "falsy", text |-> << >>]

\* An application/ld+json script block. parses: json.loads(script.string)
\* returns; root: what it returns, an "object", a "list" whose first element
\* is the object, an "empty_list", or a "scalar" (anything without .get);
\* type: the object's '@type'.
Block(parses, root, type, duration) ==
    [parses |-> parses, root |-> root, type |-> type, duration |-> duration]

\* mutant: the scan ends at the first block, whatever it holds
RECURSIVE ScanDuration_first_block_only(_)
ScanDuration_first_block_only(blocks) ==
    IF blocks = << >> THEN Unknown
    ELSE LET b == Head(blocks)
         IN  IF b.parses /\ b.root \in {"object", "list"} /\ b.type = "VideoObject"
                  /\ b.duration.kind = "string" /\ StartsWith(b.duration.text, <<"P", "T">>)
             THEN FormatDuration(ParseDuration(b.duration.text))
             ELSE Unknown

\* app.py 177-208: the loop over the script blocks. A block that raises
\* (json.loads, .get on a scalar, .startswith on a value that is no string) is
\* skipped; the loop breaks at the first VideoObject that did not raise.
RECURSIVE ScanDuration(_)
ScanDuration(blocks) ==
    IF blocks = << >> THEN Unknown
    ELSE LET b == Head(blocks)
         IN  IF ~b.parses \/ b.root = "scalar" THEN ScanDuration(Tail(blocks))
             ELSE IF b.root = "empty_list" \/ b.type # "VideoObject"
             THEN ScanDuration(Tail(blocks))
             ELSE IF b.duration.kind = "truthy" THEN ScanDuration(Tail(blocks))
             ELSE IF b.duration.kind = "string" /\ b.duration.text # << >>
                       /\ StartsWith(b.duration.text, <<"P", "T">>)
             THEN FormatDuration(ParseDuration(b.duration.text))
             ELSE Unknown

\* what requests.get and raise_for_status make of the watch page
Unreachable(why) ==
    [ok |-> FALSE, why |-> why, og_title |-> NoTag, title |-> NoTag,
     og_description |-> NoTag, ld_json |-> << >>]
Page(og_title, title, og_description, ld_json) ==
    [ok |-> TRUE, why |-> "", og_title |-> og_title, title |-> title,
     og_description |-> og_description, ld_json |-> ld_json]

\* app.py 162-168; transcript.py 131-135 has no <title> fallback
TitleOf(f, page) ==
    IF page.og_title.present
    THEN IF page.og_title.has_content THEN page.og_title.content ELSE UnknownTitle
    ELSE IF f = "app" /\ page.title.present
    THEN Strip(RemoveAll(page.title.content, YouTubeSuffix))
    ELSE UnknownTitle

\* app.py 170-174
DescriptionOf(page) ==
    IF page.og_description.present /\ page.og_description.has_content
    THEN page.og_description.content
    ELSE << >>

\* app.py 219-226: the dict of the except clause
SentinelMetadata(video_id) ==
    [title |-> UnknownTitle, description |-> << >>, duration |-> Unknown,
     url |-> WatchUrlPrefix \o video_id]

\* mutant: a failed page fetch propagates out of get_video_metadata
get_video_metadata_unguarded(f, video_id, fetched) ==
    IF ~fetched.ok
    THEN [raised |-> TRUE, value |-> SentinelMetadata(video_id)]
    ELSE [raised |-> FALSE,
          value |-> [title |-> TitleOf(f, fetched),
                     description |-> DescriptionOf(fetched),
                     duration |-> ScanDuration(fetched.ld_json),
                     url |-> WatchUrlPrefix \o video_id]]

\* get_video_metadata of file f, given what the page fetch produced: whether
\* it raised, and the dict it returned
get_video_metadata(f, video_id, fetched) ==
    IF ~fetched.ok
    THEN [raised |-> FALSE, value |-> SentinelMetadata(video_id)]
    ELSE [raised |-> FALSE,
          value |-> [title |-> TitleOf(f, fetched),
                     description |-> DescriptionOf(fetched),
                     duration |-> ScanDuration(fetched.ld_json),
                     url |-> WatchUrlPrefix \o video_id]]

----------------------------------------------------------------------------
(* History kept for the claims about freed capacity *)

NoEpisode == [active |-> FALSE, freed |-> 0, used |-> 0, closed |-> FALSE]

\* entries of the stored list that are 60 seconds old or older at time t
Expired(timestamps, t) == {i \in DOMAIN timestamps : t - timestamps[i] >= WINDOW}

\* An episode opens when a call finds the stored list full with k > 0 entries
\* expired; it counts the admissions until the next rejection and is dropped
\* when a further entry expires in between.
NextEpisode(ep, timestamps, t, max, ret) ==
    LET k == Cardinality(Expired(timestamps, t))
    IN  IF Len(timestamps) = max /\ k > 0
        THEN [active |-> TRUE, freed |-> k,
              used |-> IF ret THEN 1 ELSE 0, closed |-> ~ret]
        ELSE IF ep.active /\ ~ep.closed
        THEN IF k > 0
             THEN NoEpisode
             ELSE IF ret
                  THEN [ep EXCEPT !.used = @ + 1]
                  ELSE [ep EXCEPT !.closed = TRUE]
        ELSE NoEpisode

----------------------------------------------------------------------------
(* POST /api/transcript: app.py 240-316, transcript.py 205-272 *)

\* dict.update
Update(d, m) == [k \in DOMAIN d \cup DOMAIN m |-> IF k \in DOMAIN m THEN m[k] ELSE d[k]]

\* request.get_json() of {}
EmptyObject == << >>

\* a request body that is no JSON: request.get_json() raises on it
NotJson == [not_json |-> TRUE]
Raises(data) == "not_json" \in DOMAIN data

\* data.get('include_metadata', True)
IncludeMetadata(data) ==
    IF "include_metadata" \in DOMAIN data THEN data.include_metadata ELSE TRUE

\* if not data or 'url' not in data
MissingUrl(data) == data = EmptyObject \/ "url" \notin DOMAIN data

NoResponse == [status |-> 0, data |-> << >>]

\* app.py 246-253
RateLimited(max, current) ==
    [status |-> 429,
     data |-> [success |-> FALSE, error |-> "Rate limit exceeded. Try again later.",
               rate_limit |-> [max_requests_per_minute |-> max,
                               current_requests |-> current]]]

\* app.py 259-262 and 272-275
BadRequest(error) == [status |-> 400, data |-> [success |-> FALSE, error |-> error]]

\* app.py 311-316
InternalError == [status |-> 500,
                  data |-> [success |-> FALSE, error |-> "Internal server error: "]]

\* app.py 281-288
ResponseData(res, video_id, url, t) ==
    [success |-> res.success, video_id |-> video_id, url |-> url,
     transcript |-> res.text, transcript_length |-> Len(res.text), timestamp |-> t]

\* mutant: a failed transcript is answered 200 like a fetched one
Reply_always_200(f, base, res, include, fetched) ==
    LET m == get_video_metadata(f, base.video_id, fetched)
    IN  [status |-> 200, data |-> IF include THEN Update(base, m.value) ELSE base]

\* app.py 290-309, transcript.py 255-265: the metadata merged into the
\* response data, then the status by transcript_success. app.py guards the
\* metadata call by a try of its own, in transcript.py an exception of it
\* would reach the handler's except clause.
Reply(f, base, res, include, fetched) ==
    LET m == get_video_metadata(f, base.video_id, fetched)
        merged == IF ~include THEN base
                  ELSE IF ~m.raised THEN Update(base, m.value)
                  ELSE Update(base, [title |-> UnknownTitle, description |-> << >>,
                                     duration |-> Unknown])
    IN  IF include /\ m.raised /\ f = "transcript" THEN InternalError
        ELSE IF ~res.success
        THEN [status |-> 404, data |-> Update(merged, [error |-> res.error])]
        ELSE [status |-> 200, data |-> merged]

NotFetched == Unreachable("not requested")

\* metadata = get_video_metadata(video_id): nothing before the call, then
\* what the call returned or that it raised
NoMetadata == [done |-> FALSE, raised |-> FALSE, value |-> << >>]
Returns(m) == [done |-> TRUE, raised |-> m.raised, value |-> m.value]

NoRequest ==
    /\ hpc = "off"
    /\ body = EmptyObject
    /\ watch_page = NotFetched
    /\ response = NoResponse
    /\ steps = << >>
    /\ requests = 0
    /\ results = << >>
    /\ metadata = NoMetadata

\* the request arrives and the handler calls rate_limit_check (app.py 244-253)
ReceiveRequest(B) ==
    /\ hpc \in {"idle", "responded"}
    /\ requests < MaxRequests
    /\ requests' = requests + 1
    /\ \E b \in B : body' = b
    /\ steps' = <<"rate_limit_check">>
    /\ watch_page' = NotFetched
    /\ LET r == rate_limit_check(request_timestamps, clock, MAX_REQUESTS_PER_MINUTE)
       IN  /\ request_timestamps' = r.timestamps
           /\ lastResult' = Returned(r.ret)
           /\ admitted' = IF r.ret THEN Append(admitted, clock) ELSE admitted
           /\ episode' = NextEpisode(episode, request_timestamps, clock,
                                     MAX_REQUESTS_PER_MINUTE, r.ret)
           /\ IF r.ret
              THEN /\ hpc' = "validate"
                   /\ response' = NoResponse
              ELSE /\ hpc' = "responded"
                   /\ response' = RateLimited(MAX_REQUESTS_PER_MINUTE, Len(r.timestamps))
    /\ calls' = calls + 1
    /\ fpc' = "off"
    /\ transcript_text' = << >>
    /\ e1' = << >>
    /\ tracks' = 0
    /\ track' = 0
    /\ result' = NoResultYet
    /\ provider_calls' = << >>
    /\ youtube_url' = NotAString
    /\ extracted' = NotExtracted
    /\ metadata' = NoMetadata
    /\ UNCHANGED <<MAX_REQUESTS_PER_MINUTE, clock, ticks, raceVars, file, results>>

\* app.py 255-275: the body is read and the video id extracted
Validate ==
    /\ hpc = "validate"
    /\ IF Raises(body)
       THEN /\ response' = InternalError
            /\ hpc' = "responded"
            /\ steps' = Append(steps, "validate")
            /\ UNCHANGED <<youtube_url, extracted, fpc>>
       ELSE IF MissingUrl(body)
       THEN /\ response' = BadRequest("Missing YouTube URL in request body")
            /\ hpc' = "responded"
            /\ steps' = Append(steps, "validate")
            /\ UNCHANGED <<youtube_url, extracted, fpc>>
       ELSE LET id == extract_video_id(file, body.url)
            IN  /\ youtube_url' = body.url
                /\ extracted' = [done |-> TRUE, id |-> id]
                /\ steps' = steps \o <<"validate", "extract_video_id">>
                /\ IF NoVideoId(id)
                   THEN /\ response' = BadRequest("Invalid YouTube URL")
                        /\ hpc' = "responded"
                        /\ fpc' = fpc
                   ELSE /\ response' = response
                        /\ hpc' = "fetch"
                        /\ fpc' = "method1"
    /\ UNCHANGED <<rlVars, raceVars, file, body, watch_page, requests, results, metadata>>
    /\ UNCHANGED <<transcript_text, e1, tracks, track, result, provider_calls>>

\* app.py 280-309 with include_metadata true: the watch page is fetched, the
\* metadata merged, the response returned
RespondWithMetadata(P) ==
    /\ hpc = "fetch"
    /\ fpc = "done"
    /\ IncludeMetadata(body)
    /\ \E fetched \in P :
         /\ watch_page' = fetched
         /\ metadata' = Returns(get_video_metadata(file, extracted.id.id, fetched))
         /\ response' = Reply(file,
                              ResponseData(result, extracted.id.id, youtube_url.text, clock),
                              result, TRUE, fetched)
    /\ steps' = steps \o <<"fetch_transcript", "get_video_metadata">>
    /\ hpc' = "responded"
    /\ UNCHANGED <<rlVars, raceVars, file, fetchVars, exVars, body, requests, results>>

\* app.py 280-309 with include_metadata false
RespondWithoutMetadata ==
    /\ hpc = "fetch"
    /\ fpc = "done"
    /\ ~IncludeMetadata(body)
    /\ response' = Reply(file,
                         ResponseData(result, extracted.id.id, youtube_url.text, clock),
                         result, FALSE, NotFetched)
    /\ steps' = Append(steps, "fetch_transcript")
    /\ hpc' = "responded"
    /\ UNCHANGED <<rlVars, raceVars, file, fetchVars, exVars, body, watch_page, requests, results,
                   metadata>>

----------------------------------------------------------------------------
(* POST /api/batch: transcript.py 274-350 *)

\* max_batch_size = 5
max_batch_size == 5

\* a JSON array, and the JSON values that are no array
List(items) == [type |-> "list", items |-> items]
NotAList == [type |-> "other", items |-> << >>]

\* if not data or 'urls' not in data
MissingUrls(data) == data = EmptyObject \/ "urls" \notin DOMAIN data

\* transcript.py 280-283
BatchRateLimited ==
    [status |-> 429,
     data |-> [success |-> FALSE, error |-> "Rate limit exceeded. Try again later."]]

\* transcript.py 313-317
InvalidUrlResult(url) == [url |-> url, success |-> FALSE, error |-> "Invalid YouTube URL"]

\* transcript.py 322-331
FetchedResult(url, video_id, res) ==
    LET r == [url |-> url, video_id |-> video_id, success |-> res.success,
              transcript |-> res.text, transcript_length |-> Len(res.text)]
    IN  IF res.success THEN r ELSE Update(r, [error |-> res.error])

\* transcript.py 338-343
BatchDone(rs, t) ==
    [status |-> 200,
     data |-> [success |-> TRUE, total_processed |-> Len(rs), results |-> rs,
               timestamp |-> t]]

\* mutant: a list of exactly max_batch_size urls is rejected too
BatchProblem_limit_exclusive(data) ==
    IF MissingUrls(data) THEN "Missing URLs array in request body"
    ELSE IF data.urls.type # "list" \/ Len(data.urls.items) = 0
    THEN "URLs must be a non-empty array"
    ELSE IF Len(data.urls.items) >= max_batch_size THEN "Batch size limited to 5 URLs"
    ELSE ""

\* transcript.py 286-306: the error of the validation, "" when the body passes
BatchProblem(data) ==
    IF MissingUrls(data) THEN "Missing URLs array in request body"
    ELSE IF data.urls.type # "list" \/ Len(data.urls.items) = 0
    THEN "URLs must be a non-empty array"
    ELSE IF Len(data.urls.items) > max_batch_size THEN "Batch size limited to 5 URLs"
    ELSE ""

\* the request arrives and the handler calls rate_limit_check
\* (transcript.py 278-283)
ReceiveBatch(B) ==
    /\ hpc \in {"idle", "responded"}
    /\ file = "transcript"
    /\ requests < MaxRequests
    /\ requests' = requests + 1
    /\ \E b \in B : body' = b
    /\ steps' = <<"rate_limit_check">>
    /\ watch_page' = NotFetched
    /\ results' = << >>
    /\ LET r == rate_limit_check(request_timestamps, clock, MAX_REQUESTS_PER_MINUTE)
       IN  /\ request_timestamps' = r.timestamps
           /\ lastResult' = Returned(r.ret)
           /\ admitted' = IF r.ret THEN Append(admitted, clock) ELSE admitted
           /\ episode' = NextEpisode(episode, request_timestamps, clock,
                                     MAX_REQUESTS_PER_MINUTE, r.ret)
           /\ IF r.ret
              THEN /\ hpc' = "batch_validate"
                   /\ response' = NoResponse
              ELSE /\ hpc' = "responded"
                   /\ response' = BatchRateLimited
    /\ calls' = calls + 1
    /\ fpc' = "off"
    /\ transcript_text' = << >>
    /\ e1' = << >>
    /\ tracks' = 0
    /\ track' = 0
    /\ result' = NoResultYet
    /\ provider_calls' = << >>
    /\ youtube_url' = NotAString
    /\ extracted' = NotExtracted
    /\ metadata' = NoMetadata
    /\ UNCHANGED <<MAX_REQUESTS_PER_MINUTE, clock, ticks, raceVars, file>>

\* transcript.py 286-306: the body is read and the urls value tested
BatchValidate ==
    /\ hpc = "batch_validate"
    /\ steps' = Append(steps, "validate")
    /\ IF Raises(body)
       THEN /\ response' = InternalError
            /\ hpc' = "responded"
       ELSE IF BatchProblem(body) # ""
       THEN /\ response' = BadRequest(BatchProblem(body))
            /\ hpc' = "responded"
       ELSE /\ response' = response
            /\ hpc' = "batch_loop"
    /\ UNCHANGED <<rlVars, raceVars, file, fetchVars, exVars, body, watch_page,
                   requests, results, metadata>>

\* transcript.py 310-318: the next url of the loop; an invalid one gets its
\* result at once, for a valid one fetch_transcript is called
BatchNextUrl ==
    /\ hpc = "batch_loop"
    /\ Len(results) < Len(body.urls.items)
    /\ LET url == body.urls.items[Len(results) + 1]
           id == extract_video_id(file, url)
       IN  /\ youtube_url' = url
           /\ extracted' = [done |-> TRUE, id |-> id]
           /\ IF NoVideoId(id)
              THEN /\ results' = Append(results, InvalidUrlResult(url))
                   /\ hpc' = hpc
                   /\ UNCHANGED fetchVars
              ELSE /\ results' = results
                   /\ hpc' = "batch_fetch"
                   /\ fpc' = "method1"
                   /\ transcript_text' = << >>
                   /\ e1' = << >>
                   /\ tracks' = 0
                   /\ track' = 0
                   /\ result' = NoResultYet
                   /\ provider_calls' = << >>
    /\ UNCHANGED <<rlVars, raceVars, file, body, watch_page, response, steps, requests,
                   metadata>>

\* transcript.py 320-336: fetch_transcript returned, its result is appended
BatchCollect ==
    /\ hpc = "batch_fetch"
    /\ fpc = "done"
    /\ results' = Append(results, FetchedResult(youtube_url, extracted.id.id, result))
    /\ hpc' = "batch_loop"
    /\ fpc' = "off"
    /\ UNCHANGED <<rlVars, raceVars, file, exVars, body, watch_page, response, steps,
                   requests, metadata>>
    /\ UNCHANGED <<transcript_text, e1, tracks, track, result, provider_calls>>

\* transcript.py 338-343: the loop is over
BatchRespond ==
    /\ hpc = "batch_loop"
    /\ Len(results) = Len(body.urls.items)
    /\ response' = BatchDone(results, clock)
    /\ hpc' = "responded"
    /\ UNCHANGED <<rlVars, raceVars, file, fetchVars, exVars, body, watch_page, steps,
                   requests, results, metadata>>

----------------------------------------------------------------------------
(* The GET endpoints: app.py 229-238, 318-341; transcript.py 195-203, 352-361 *)

\* a GET request is answered between two POST requests
BetweenRequests == hpc \in {"idle", "responded"}

Ok(data) == [status |-> 200, data |-> data]

\* GET /
HealthCheck ==
    /\ BetweenRequests
    /\ response' = Ok([status |-> "healthy", timestamp |-> clock])
    /\ hpc' = "responded"
    /\ steps' = << >>
    /\ body' = EmptyObject
    /\ UNCHANGED <<rlVars, raceVars, file, fetchVars, exVars, watch_page, requests,
                   results, metadata>>

\* GET /api/status: len(request_timestamps) is read, the list is not pruned
GetStatus ==
    /\ BetweenRequests
    /\ response' = Ok([status |-> "operational",
                       current_load |-> Len(request_timestamps),
                       max_requests_per_minute |-> MAX_REQUESTS_PER_MINUTE,
                       timestamp |-> clock])
    /\ hpc' = "responded"
    /\ steps' = << >>
    /\ body' = EmptyObject
    /\ UNCHANGED <<rlVars, raceVars, file, fetchVars, exVars, watch_page, requests,
                   results, metadata>>

\* GET /test of app.py: extract_video_id on a fixed url
TestEndpoint ==
    /\ BetweenRequests
    /\ file = "app"
    /\ youtube_url' = Str(WatchUrlPrefix \o <<"d", "Q", "w", "4", "w", "9", "W", "g", "X", "c", "Q">>)
    /\ extracted' = [done |-> TRUE,
                     id |-> extract_video_id(file, Str(WatchUrlPrefix \o <<"d", "Q", "w", "4", "w", "9", "W", "g", "X", "c", "Q">>))]
    /\ response' = Ok([status |-> "ok",
                       extracted_id |-> extract_video_id(file, Str(WatchUrlPrefix \o <<"d", "Q", "w", "4", "w", "9", "W", "g", "X", "c", "Q">>))])
    /\ hpc' = "responded"
    /\ steps' = << >>
    /\ body' = EmptyObject
    /\ UNCHANGED <<rlVars, raceVars, file, fetchVars, watch_page, requests, results,
                   metadata>>

----------------------------------------------------------------------------
(* The sequential rate limiter: one request at a time *)

HandlersIdle ==
    /\ pc = [h \in Handlers |-> "idle"]
    /\ now = [h \in Handlers |-> 0]
    /\ filtered = [h \in Handlers |-> << >>]
    /\ overlapped = FALSE

\* app.py 31: request_timestamps = [], and the histories empty
LimiterEmpty ==
    /\ request_timestamps = << >>
    /\ clock = 0
    /\ calls = 0
    /\ ticks = 0
    /\ lastResult = NoResult
    /\ admitted = << >>
    /\ episode = NoEpisode

\* app.py 28: the maximum is whatever the environment configures
LimiterInit ==
    /\ MAX_REQUESTS_PER_MINUTE \in 1 .. MaxLimit
    /\ LimiterEmpty

\* the rate limiter takes no part
LimiterUnused ==
    /\ MAX_REQUESTS_PER_MINUTE = MaxLimit
    /\ LimiterEmpty

Init ==
    /\ LimiterInit
    /\ HandlersIdle
    /\ file = "app"
    /\ NoFetch
    /\ NoExtraction
    /\ NoRequest

\* time passes
Tick ==
    /\ ticks < MaxTicks
    /\ \E d \in ClockSteps : clock' = clock + d
    /\ ticks' = ticks + 1
    /\ UNCHANGED <<MAX_REQUESTS_PER_MINUTE, request_timestamps, calls,
                   lastResult, admitted, episode>>
    /\ UNCHANGED <<raceVars, appVars>>

\* a request runs rate_limit_check from its first line to its return
RateLimitCall ==
    /\ calls < MaxCalls
    /\ LET r == rate_limit_check(request_timestamps, clock, MAX_REQUESTS_PER_MINUTE)
       IN  /\ request_timestamps' = r.timestamps
           /\ lastResult' = Returned(r.ret)
           /\ admitted' = IF r.ret THEN Append(admitted, clock) ELSE admitted
           /\ episode' = NextEpisode(episode, request_timestamps, clock,
                                     MAX_REQUESTS_PER_MINUTE, r.ret)
    /\ calls' = calls + 1
    /\ UNCHANGED <<MAX_REQUESTS_PER_MINUTE, clock, ticks>>
    /\ UNCHANGED <<raceVars, appVars>>

Next == Tick \/ RateLimitCall

Spec == Init /\ [][Next]_vars

----------------------------------------------------------------------------
(* Claims about the sequential rate limiter *)

\* admissions whose time lies in the 60-second window that ends at t
AdmittedInWindow(t) == {i \in DOMAIN admitted : admitted[i] <= t /\ t - admitted[i] < WINDOW}

\* C1: with a non-decreasing clock and one call at a time, request_timestamps
\* never holds more than MAX_REQUESTS_PER_MINUTE entries, no trailing 60-second
\* window holds more than MAX_REQUESTS_PER_MINUTE admissions, and a call made
\* when the window already holds that many admissions returns False.
C1_AtMostMaxPerWindow ==
    /\ [](Len(request_timestamps) <= MAX_REQUESTS_PER_MINUTE)
    /\ [](\A t \in 0 .. clock :
             Cardinality(AdmittedInWindow(t)) <= MAX_REQUESTS_PER_MINUTE)
    /\ [][calls' = calls + 1
            /\ Cardinality(AdmittedInWindow(clock)) >= MAX_REQUESTS_PER_MINUTE
          => lastResult' = Returned(FALSE)]_vars

\* the (N+1)th call of a window was just rejected, N > 1
C1_Witness ==
    /\ MAX_REQUESTS_PER_MINUTE > 1
    /\ lastResult = Returned(FALSE)
    /\ Cardinality(AdmittedInWindow(clock)) = MAX_REQUESTS_PER_MINUTE
    /\ Len(request_timestamps) = MAX_REQUESTS_PER_MINUTE

\* the entries of s younger than 60 seconds at time t, in their order
RECURSIVE YoungerThanWindow(_, _)
YoungerThanWindow(s, t) ==
    IF s = << >> THEN << >>
    ELSE IF t - Head(s) >= WINDOW
         THEN YoungerThanWindow(Tail(s), t)
         ELSE <<Head(s)>> \o YoungerThanWindow(Tail(s), t)

\* C2: a call that returns False leaves request_timestamps equal to the
\* unexpired entries it held before the call, the rejected call's time is not
\* appended; a call that returns True leaves those entries followed by exactly
\* one new entry, the current time.
C2_RejectRecordsNothing ==
    [][calls' = calls + 1
         => /\ lastResult' \in {Returned(TRUE), Returned(FALSE)}
            /\ lastResult' = Returned(FALSE)
                 => request_timestamps' = YoungerThanWindow(request_timestamps, clock)
            /\ lastResult' = Returned(TRUE)
                 => request_timestamps' =
                        Append(YoungerThanWindow(request_timestamps, clock), clock)]_vars

\* a call was rejected at a time that differs from every recorded timestamp
C2_Witness ==
    /\ lastResult = Returned(FALSE)
    /\ request_timestamps # << >>
    /\ \A i \in DOMAIN request_timestamps : request_timestamps[i] < clock

\* C3: rejection is not permanent. When a call finds the limiter full and k > 0
\* of its entries 60 seconds old or older, that call is admitted, and counting
\* it exactly k calls are admitted before the next rejection, as long as no
\* further entry expires in between.
C3_CapacityFreedByExpiry ==
    episode.active
        => /\ episode.used <= episode.freed
           /\ episode.used >= 1
           /\ episode.closed => episode.used = episode.freed

\* two entries expired, two calls were admitted, the third was rejected
C3_Witness ==
    /\ episode.active
    /\ episode.closed
    /\ episode.freed = 2
    /\ episode.used = 2
    /\ lastResult = Returned(FALSE)

----------------------------------------------------------------------------
(* Concurrent request handlers: rate_limit_check holds no lock, so its       *)
(* statements (app.py 35, 39, 41-42, 44-45) interleave between the threads  *)
(* of the server.  The list a comprehension builds is private to its thread *)
(* until it is bound to the global name; `.append` and `len` look the       *)
(* global name up when they run.                                            *)

Busy(h) == pc[h] # "idle"

\* line 35: now = time.time()
Enter(h) ==
    /\ pc[h] = "idle"
    /\ calls < MaxRaceCalls
    /\ calls' = calls + 1
    /\ now' = [now EXCEPT ![h] = clock]
    /\ pc' = [pc EXCEPT ![h] = "filter"]
    /\ overlapped' = (overlapped \/ \E o \in Handlers \ {h} : Busy(o))
    /\ UNCHANGED <<MAX_REQUESTS_PER_MINUTE, request_timestamps, clock, ticks,
                   lastResult, admitted, episode, filtered>>
    /\ UNCHANGED appVars

\* line 39, right-hand side: the comprehension reads the global list
Filter(h) ==
    /\ pc[h] = "filter"
    /\ filtered' = [filtered EXCEPT ![h] = Unexpired(request_timestamps, now[h])]
    /\ pc' = [pc EXCEPT ![h] = "assign"]
    /\ UNCHANGED <<rlVars, now, overlapped>>
    /\ UNCHANGED appVars

\* line 39, the store: the global name is bound to the new list
Assign(h) ==
    /\ pc[h] = "assign"
    /\ request_timestamps' = filtered[h]
    /\ pc' = [pc EXCEPT ![h] = "compare"]
    /\ UNCHANGED <<MAX_REQUESTS_PER_MINUTE, clock, calls, ticks, lastResult,
                   admitted, episode, now, filtered, overlapped>>
    /\ UNCHANGED appVars

\* lines 41-42: the length of the global list against the maximum
Compare(h) ==
    /\ pc[h] = "compare"
    /\ IF LimitReached(request_timestamps, MAX_REQUESTS_PER_MINUTE)
       THEN /\ lastResult' = Returned(FALSE)
            /\ pc' = [pc EXCEPT ![h] = "idle"]
       ELSE /\ lastResult' = lastResult
            /\ pc' = [pc EXCEPT ![h] = "append"]
    /\ UNCHANGED <<MAX_REQUESTS_PER_MINUTE, request_timestamps, clock, calls,
                   ticks, admitted, episode, now, filtered, overlapped>>
    /\ UNCHANGED appVars

\* lines 44-45: append to the global list and return True
AppendNow(h) ==
    /\ pc[h] = "append"
    /\ request_timestamps' = Append(request_timestamps, now[h])
    /\ admitted' = Append(admitted, now[h])
    /\ lastResult' = Returned(TRUE)
    /\ pc' = [pc EXCEPT ![h] = "idle"]
    /\ UNCHANGED <<MAX_REQUESTS_PER_MINUTE, clock, calls, ticks, episode,
                   now, filtered, overlapped>>
    /\ UNCHANGED appVars

\* time passes while handlers are anywhere in rate_limit_check
RaceTick ==
    /\ ticks < MaxRaceTicks
    /\ \E d \in {1, WINDOW} : clock' = clock + d
    /\ ticks' = ticks + 1
    /\ UNCHANGED <<MAX_REQUESTS_PER_MINUTE, request_timestamps, calls,
                   lastResult, admitted, episode>>
    /\ UNCHANGED <<raceVars, appVars>>

RaceNext ==
    \/ RaceTick
    \/ \E h \in Handlers : Enter(h)
    \/ \E h \in Handlers : Filter(h)
    \/ \E h \in Handlers : Assign(h)
    \/ \E h \in Handlers : Compare(h)
    \/ \E h \in Handlers : AppendNow(h)

SpecRace == Init /\ [][RaceNext]_vars

\* more admissions than the maximum inside one 60-second window
OverAdmission ==
    \E t \in 0 .. clock : Cardinality(AdmittedInWindow(t)) > MAX_REQUESTS_PER_MINUTE

\* a call returned True and its timestamp, not yet 60 seconds old, is not in
\* request_timestamps
LostUpdate ==
    \E i \in DOMAIN admitted :
        /\ clock - admitted[i] < WINDOW
        /\ Count(admitted, admitted[i]) > Count(request_timestamps, admitted[i])

\* C4: with handlers interleaving inside rate_limit_check, over-admission and
\* a lost update are both reachable (the witness); they are the work of the
\* interleaving alone: neither occurs in a behaviour in which no two handlers
\* were ever inside rate_limit_check at the same time.
C4_RaceNeedsOverlap ==
    (OverAdmission \/ LostUpdate) => overlapped

\* both anomalies at once: more admissions than the maximum in one window,
\* and an admitted timestamp missing from the list
C4_Witness ==
    /\ OverAdmission
    /\ LostUpdate
    /\ \A h \in Handlers : ~Busy(h)

----------------------------------------------------------------------------
(* One fetch_transcript call against every provider *)

FetchInit ==
    /\ LimiterUnused
    /\ HandlersIdle
    /\ file \in Files
    /\ FetchStart
    /\ NoExtraction
    /\ NoRequest

FetchNext ==
    \/ Method1(Responses, ErrTexts)
    \/ Method2(Responses, ErrTexts)
    \/ Method3List(ErrTexts)
    \/ FetchTrack(Responses, ErrTexts)

SpecFetch == FetchInit /\ [][FetchNext]_vars

----------------------------------------------------------------------------
(* Claims about fetch_transcript *)

\* the provider calls that deliver transcript segments when they succeed
Delivering == {"get_transcript", "get_transcript_languages", "fetch"}

\* the order in which the chain may call the provider
CallRank(c) ==
    IF c.call = "get_transcript" THEN 1
    ELSE IF c.call = "get_transcript_languages" THEN 2
    ELSE IF c.call = "list_transcripts" THEN 3
    ELSE 3 + c.track

\* C5: the provider is called in the order default track, preferred
\* languages, enumeration, then the tracks in the order the provider listed
\* them, with no call skipped or repeated; a call is made only after every
\* earlier strategy raised; after a call that delivered segments no further
\* call is made; and the text the chain ends with is the text of that call.
C5_StrategiesInOrder ==
    /\ \A i \in DOMAIN provider_calls : CallRank(provider_calls[i]) = i
    /\ \A i \in DOMAIN provider_calls :
           /\ provider_calls[i].call = "fetch" => provider_calls[i].track <= tracks
           /\ i < Len(provider_calls)
                => (provider_calls[i].ok <=> provider_calls[i].call = "list_transcripts")
    /\ \A i \in DOMAIN provider_calls :
           provider_calls[i].ok /\ provider_calls[i].call \in Delivering
               => /\ fpc = "done"
                  /\ transcript_text = provider_calls[i].text
                  /\ result = Finish(provider_calls[i].text)
                         \/ (provider_calls[i].text = << >> /\ ~result.success)

\* the first track raised, the second one delivered text and ended the call
C5_Witness ==
    /\ fpc = "done"
    /\ tracks = 2
    /\ Len(provider_calls) = 5
    /\ ~provider_calls[4].ok
    /\ provider_calls[5].ok
    /\ provider_calls[5].text # << >>
    /\ result.success

\* C6: every returned result has success = true with a non-empty text and an
\* empty error message, or success = false with an empty text and a
\* non-empty error message.
C6_ResultInvariant ==
    fpc = "done"
        => IF result.success
           THEN result.text # << >> /\ result.error = NoMessage
           ELSE result.text = << >> /\ result.error # NoMessage

\* C7: whichever provider calls raise, fetch_transcript goes on to its next
\* step or returns; a failure is returned as ("", False, message) where the
\* message is one of the fixed texts, followed by at most 100 characters of
\* the default method's error text in the case of "No transcript available: ".
C7_FailuresAreReturned ==
    /\ fpc \in {"method1", "method2", "method3", "tracks", "done"}
    /\ fpc # "done" => ENABLED FetchNext
    /\ fpc = "done" /\ ~result.success
         => /\ result.text = << >>
            /\ result.error.fixed \in FixedTexts
            /\ Len(result.error.tail) <= ErrCut
            /\ result.error.tail # << >>
                 => /\ result.error.fixed = "No transcript available: "
                    /\ result.error.tail = SubSeq(e1, 1, Len(result.error.tail))

\* every provider call raised, the error text of the default method was
\* longer than 100 characters and was cut
C7_Witness ==
    /\ fpc = "done"
    /\ Len(provider_calls) = 3
    /\ \A i \in DOMAIN provider_calls : ~provider_calls[i].ok
    /\ Len(e1) > ErrCut
    /\ Len(result.error.tail) = ErrCut
    /\ ~result.success

----------------------------------------------------------------------------
(* extract_video_id on its own, on URLs put together from a head, the       *)
(* marker of a rule, a token and a tail                                     *)

\* longest token placed where the video id belongs
MaxTokenLen == 12

\* dQw4w9WgXcQ, and more characters for the longer tokens
TokenBase == <<"d", "Q", "w", "4", "w", "9", "W", "g", "X", "c", "Q", "Z", "3", "k", "7">>

UrlHeads == {<< >>,
            <<"h", "t", "t", "p", "s", ":", "/", "/", "w", "w", "w", ".", "y", "o", "u", "t", "u", "b", "e", ".", "c", "o", "m", "/">>,
            <<"h", "t", "t", "p", ":", "/", "/", "x", "/">>}

UrlMarkers == {<<"w", "a", "t", "c", "h", "?", "v", "=">>,
              <<"y", "o", "u", "t", "u", ".", "b", "e", "/">>,
              <<"e", "m", "b", "e", "d", "/">>,
              <<"v", "/">>,
              <<"e", "/">>,
              <<"w", "a", "t", "c", "h", "?", "a", "=", "b", "&", "v", "=">>,
              <<"s", "h", "o", "r", "t", "s", "/">>,
              <<"c", "/", "d", "/">>,
              << >>}

UrlTails == {<< >>,
            <<"&", "t", "=", "3", "0", "s">>,
            <<"?", "t", "=", "3", "0">>,
            <<"/", "x">>,
            <<"&", "u", "=", "w", "a", "t", "c", "h", "?", "v", "=", "x">>,
            <<"?", "u", "=", "w", "a", "t", "c", "h", "?", "v", "=", "x">>}

Tokens == {Take(TokenBase, n) : n \in {0, 1} \cup (IdLength - 1 .. MaxTokenLen)}

Urls == {h \o m \o t \o x : h \in UrlHeads, m \in UrlMarkers, t \in Tokens, x \in UrlTails}

ExtractInit ==
    /\ LimiterUnused
    /\ HandlersIdle
    /\ NoFetch
    /\ file \in Files
    /\ NoRequest
    /\ youtube_url \in {Str(u) : u \in Urls} \cup {NotAString}
    /\ extracted = NotExtracted

\* one call of extract_video_id(youtube_url)
Extract ==
    /\ ~extracted.done
    /\ extracted' = [done |-> TRUE, id |-> extract_video_id(file, youtube_url)]
    /\ UNCHANGED <<rlVars, raceVars, file, fetchVars, youtube_url, httpVars>>

ExtractNext == Extract

SpecExtract == ExtractInit /\ [][ExtractNext]_vars

\* C10: extract_video_id returns either nothing or a token of exactly 11
\* characters, whichever rule produced the candidate.
C10_IdAbsentOrElevenChars ==
    extracted.done => ~extracted.id.found \/ Len(extracted.id.id) = IdLength

\* the 11-character token of the URLs
VideoId == Take(TokenBase, IdLength)

\* s holds marker, then id, then nothing more or parameters opened by sep
ShapeAt(s, marker, id, sep) ==
    \E i \in Occurrences(s, marker \o id) :
        LET j == i + Len(marker) + Len(id)
        IN  j > Len(s) \/ s[j] = sep

\* forms of the fallback pattern: youtube.com/v/ID, youtube.com/e/ID,
\* youtube.com/<segment>/<segment>/ID, youtube.com/...&v=ID
FallbackForms == {YOUTUBE_COM \o m : m \in {<<"v", "/">>, <<"e", "/">>,
                                            <<"c", "/", "d", "/">>,
                                            <<"w", "a", "t", "c", "h", "?", "a", "=", "b", "&", "v", "=">>}}

\* s has one of the recognized shapes around id
RecognizedShape(s, id) ==
    \/ ShapeAt(s, WATCH, id, "&")
    \/ ShapeAt(s, YOUTU_BE, id, "?")
    \/ ShapeAt(s, EMBED, id, "?")
    \/ \E m \in FallbackForms :
          /\ ~Contains(s, WATCH) /\ ~Contains(s, YOUTU_BE) /\ ~Contains(s, EMBED)
          /\ \E i \in Occurrences(s, m \o id) :
                LET j == i + Len(m) + Len(id)
                IN  j > Len(s) \/ ~IdChar(s[j])

\* s is unrelated to every shape
Unrelated(s) ==
    /\ ~Contains(s, WATCH) /\ ~Contains(s, YOUTU_BE) /\ ~Contains(s, EMBED)
    /\ ~Contains(s, YOUTUBE_COM)

\* C11: for every URL of a recognized shape around an 11-character token,
\* with or without parameters after it, extract_video_id returns exactly that
\* token; an unrelated string yields None.
C11_ReturnsEmbeddedId ==
    extracted.done /\ youtube_url.type = "string" =>
        /\ RecognizedShape(youtube_url.text, VideoId) => extracted.id = Some(VideoId)
        /\ Unrelated(youtube_url.text) => extracted.id = None

----------------------------------------------------------------------------
(* POST /api/transcript, one request after the other *)

VideoUrl == WatchUrlPrefix \o Take(TokenBase, IdLength)

\* the values posted under 'url'
HttpUrls == {Str(VideoUrl),
             Str(VideoUrl \o <<"&", "t", "=", "3", "0", "s">>),
             Str(WatchUrlPrefix \o Take(TokenBase, IdLength - 1)),
             Str(<<"h", "e", "l", "l", "o">>),
             NotAString}

\* the JSON objects posted
Bodies ==
    {EmptyObject, [other |-> TRUE]}
        \cup {[url |-> u] : u \in HttpUrls}
        \cup {[url |-> u, include_metadata |-> b] : u \in HttpUrls, b \in BOOLEAN}

\* what the provider returns to a handler
HttpResponses == {<< >>, <<<<"a", " ", "b">>>>, <<<<"[", "a", "]">>>>}

HttpErrTexts == {Repeat("x", 1), Repeat("y", MaxErrLen)}

\* what the fetch of the watch page produces
HttpPages ==
    {Unreachable("network"),
     Unreachable("http"),
     Page(Tag(<<"T">>), NoTag, Tag(<<"D">>),
          <<Block(TRUE, "object", "VideoObject", DurationText(<<"P", "T", "1", "H", "5", "M", "1", "2", "S">>))>>),
     Page(Tag(<<"T">>), NoTag, Tag(<<"D">>),
          <<Block(FALSE, "object", "", NoDuration)>>),
     Page(NoTag, Tag(<<"T", " ", "-", " ", "Y", "o", "u", "T", "u", "b", "e">>), NoTag, << >>)}

HttpInit ==
    /\ LimiterInit
    /\ HandlersIdle
    /\ file \in Files
    /\ NoFetch
    /\ NoExtraction
    /\ hpc = "idle"
    /\ body = EmptyObject
    /\ watch_page = NotFetched
    /\ response = NoResponse
    /\ steps = << >>
    /\ requests = 0
    /\ results = << >>
    /\ metadata = NoMetadata

HttpNext ==
    \/ ReceiveRequest(Bodies)
    \/ Validate
    \/ Method1(HttpResponses, HttpErrTexts)
    \/ Method2(HttpResponses, HttpErrTexts)
    \/ Method3List(HttpErrTexts)
    \/ FetchTrack(HttpResponses, HttpErrTexts)
    \/ RespondWithMetadata(HttpPages)
    \/ RespondWithoutMetadata

SpecHttp == HttpInit /\ [][HttpNext]_vars

----------------------------------------------------------------------------
(* Claims about POST /api/transcript *)

\* the steps of get_transcript, in the order of the code
HandlerSteps == <<"rate_limit_check", "validate", "extract_video_id",
                  "fetch_transcript", "get_video_metadata">>

Responded == hpc = "responded"

NoIdExtracted == ~extracted.done \/ NoVideoId(extracted.id)

\* C8: the handler runs rate-limit check, body validation, id extraction,
\* transcript fetch and the optional metadata fetch in that order, and answers
\* 429 exactly when rate_limit_check rejected (nothing else ran), otherwise
\* 400 when the url is missing or no id was extracted (no provider call, no
\* page fetch), otherwise 404 when the transcript result is a failure,
\* otherwise 200; no other status is returned.
C8_StepsAndStatus ==
    /\ \E n \in 0..Len(HandlerSteps) : steps = Take(HandlerSteps, n)
    /\ extracted.done => lastResult = Returned(TRUE) /\ ~MissingUrl(body)
    /\ provider_calls # << >> => extracted.done /\ ~NoVideoId(extracted.id)
    /\ watch_page # NotFetched => fpc = "done" /\ IncludeMetadata(body)
    /\ Responded =>
         /\ response.status \in {429, 400, 404, 200}
         /\ response.status = 429 <=> lastResult = Returned(FALSE)
         /\ response.status = 429 =>
              /\ steps = <<"rate_limit_check">>
              /\ ~extracted.done /\ fpc = "off" /\ watch_page = NotFetched
         /\ response.status = 400 <=>
              lastResult = Returned(TRUE) /\ (MissingUrl(body) \/ NoIdExtracted)
         /\ response.status = 400 =>
              /\ provider_calls = << >> /\ fpc = "off" /\ watch_page = NotFetched
              /\ "fetch_transcript" \notin Range(steps)
         /\ response.status = 404 <=>
              lastResult = Returned(TRUE) /\ fpc = "done" /\ ~result.success
         /\ response.status = 200 <=>
              lastResult = Returned(TRUE) /\ fpc = "done" /\ result.success
         /\ response.status \in {404, 200} =>
              /\ ~MissingUrl(body) /\ ~NoIdExtracted
              /\ Take(steps, 4) = Take(HandlerSteps, 4)
              /\ Len(steps) = 5 <=> IncludeMetadata(body)

\* a request with a valid url is rejected by the limiter and nothing else ran
C8_Witness ==
    /\ Responded
    /\ response.status = 429
    /\ "url" \in DOMAIN body
    /\ body.url = Str(VideoUrl)
    /\ steps = <<"rate_limit_check">>

\* the page fetch failed, or a structured-data block of the page did not parse
MetadataFailure(p) == ~p.ok \/ \E i \in DOMAIN p.ld_json : ~p.ld_json[i].parses

MetadataKeys == {"title", "description", "duration"}

\* the status and the success flag follow the transcript result alone
OutcomeByTranscriptOnly ==
    Responded /\ fpc = "done" =>
        /\ response.status = IF result.success THEN 200 ELSE 404
        /\ response.data.success = result.success

\* the metadata is fetched and merged exactly when requested, on 404 as on 200
MetadataIncludedWhenRequested ==
    Responded /\ fpc = "done" =>
        IF IncludeMetadata(body)
        THEN watch_page # NotFetched /\ MetadataKeys \subseteq DOMAIN response.data
        ELSE watch_page = NotFetched /\ MetadataKeys \cap DOMAIN response.data = {}

SentinelInResponse ==
    /\ response.data.title = UnknownTitle
    /\ response.data.description = << >>
    /\ response.data.duration = Unknown
    /\ response.data.url = WatchUrlPrefix \o extracted.id.id

----------------------------------------------------------------------------
(* POST /api/batch, one request after the other *)

\* longest urls list posted
MaxBatchLen == 6

\* the values found in a urls list: a video url, a string that is no video
\* url, a value that is no string
BatchItems == <<Str(VideoUrl), Str(<<"h", "e", "l", "l", "o">>), NotAString>>

\* the list of length n that starts at item k and goes round BatchItems
Cycle(n, k) == [i \in 1 .. n |-> BatchItems[((i + k - 2) % Len(BatchItems)) + 1]]

BatchLists == {Cycle(n, k) : n \in 0 .. MaxBatchLen, k \in 1 .. Len(BatchItems)}

BatchBodies ==
    {EmptyObject, [other |-> TRUE], [urls |-> NotAList]}
        \cup {[urls |-> List(l)] : l \in BatchLists}

BatchResponses == {<< >>, <<<<"a">>>>}

BatchErrTexts == {Repeat("x", 1)}

BatchInit ==
    /\ LimiterInit
    /\ HandlersIdle
    /\ file = "transcript"
    /\ NoFetch
    /\ NoExtraction
    /\ hpc = "idle"
    /\ body = EmptyObject
    /\ watch_page = NotFetched
    /\ response = NoResponse
    /\ steps = << >>
    /\ requests = 0
    /\ results = << >>
    /\ metadata = NoMetadata

BatchNext ==
    \/ ReceiveBatch(BatchBodies)
    \/ BatchValidate
    \/ BatchNextUrl
    \/ Method1(BatchResponses, BatchErrTexts)
    \/ Method2(BatchResponses, BatchErrTexts)
    \/ Method3List(BatchErrTexts)
    \/ FetchTrack(BatchResponses, BatchErrTexts)
    \/ BatchCollect
    \/ BatchRespond

SpecBatch == BatchInit /\ [][BatchNext]_vars

\* the handler of POST /api/batch is at work or has answered
BatchAdmitted == hpc \in {"batch_validate", "batch_loop", "batch_fetch"}
                    \/ (Responded /\ lastResult = Returned(TRUE))

\* 'urls' is missing, is no list, is empty or has more than 5 entries
BadBatchBody ==
    \/ MissingUrls(body)
    \/ body.urls.type # "list"
    \/ Len(body.urls.items) = 0
    \/ Len(body.urls.items) > max_batch_size

\* C12: an admitted POST /api/batch answers 400 when 'urls' is missing, no
\* list, empty or longer than 5, and fetches nothing then; for every list of
\* 1 to 5 urls it answers 200 with one result per url, in the order of the
\* input, whatever urls are invalid and whatever fetches fail.
C12_BatchValidation ==
    /\ hpc \in {"batch_loop", "batch_fetch"} =>
         /\ ~BadBatchBody
         /\ Len(results) <= Len(body.urls.items)
         /\ \A i \in DOMAIN results : results[i].url = body.urls.items[i]
    /\ Responded /\ lastResult = Returned(TRUE) =>
         /\ response.status = 400 <=> BadBatchBody
         /\ response.status # 400 <=> response.status = 200
         /\ response.status = 400 =>
              /\ results = << >> /\ provider_calls = << >>
              /\ ~extracted.done /\ fpc = "off"
         /\ response.status = 200 =>
              /\ Len(body.urls.items) \in 1 .. max_batch_size
              /\ Len(response.data.results) = Len(body.urls.items)
              /\ response.data.total_processed = Len(body.urls.items)
              /\ \A i \in DOMAIN body.urls.items :
                    response.data.results[i].url = body.urls.items[i]

\* a list of exactly 5 urls, some invalid, some whose fetch failed, is answered
\* 200 with 5 results
C12_Witness ==
    /\ Responded
    /\ response.status = 200
    /\ Len(body.urls.items) = max_batch_size
    /\ Len(response.data.results) = max_batch_size
    /\ \E i \in DOMAIN results : "video_id" \notin DOMAIN results[i]
    /\ \E i \in DOMAIN results : "video_id" \in DOMAIN results[i] /\ ~results[i].success

----------------------------------------------------------------------------
(* Claims about the cleaned transcript *)

\* s has a substring that opens with "[" and closes with "]"
HasBracketed(s) == \E i, j \in DOMAIN s : i < j /\ s[i] = "[" /\ s[j] = "]"

\* s has two whitespace characters in a row
HasWhitespaceRun(s) == \E i \in 1 .. Len(s) - 1 : s[i] \in Whitespace /\ s[i + 1] \in Whitespace

\* s starts or ends with whitespace
HasOuterWhitespace(s) == s # << >> /\ (s[1] \in Whitespace \/ s[Len(s)] \in Whitespace)

\* C13: the text fetch_transcript returns holds no bracketed annotation, no
\* run of two or more whitespace characters and no leading or trailing
\* whitespace, also when brackets are nested or adjacent or a newline stands
\* inside a bracketed span.
C13_CleanedText ==
    fpc = "done" /\ result.success =>
        /\ ~HasBracketed(result.text)
        /\ ~HasWhitespaceRun(result.text)
        /\ ~HasOuterWhitespace(result.text)

----------------------------------------------------------------------------
(* get_video_metadata on its own, on pages put together from meta tags and  *)
(* structured-data blocks                                                   *)

\* the numbers written in the components of a duration, with their numerals
Numerals == [n \in {0, 1, 5, 12, 42} |-> CASE n = 0 -> <<"0">> [] n = 1 -> <<"1">>
                                            [] n = 5 -> <<"5">> [] n = 12 -> <<"1", "2">>
                                            [] n = 42 -> <<"4", "2">>]

\* a component that is not written
Absent == 0 - 1

ComponentValues == DOMAIN Numerals \cup {Absent}

\* the component of value n and unit u as it is written, nothing when absent
Written(n, u) == IF n = Absent THEN << >> ELSE Numerals[n] \o <<u>>

\* PT[nH][nM][nS]
IsoDuration(h, m, sec) == <<"P", "T">> \o Written(h, "H") \o Written(m, "M") \o Written(sec, "S")

WellFormedDurations == {IsoDuration(h, m, sec) : h, m, sec \in ComponentValues}

\* duration values that are no PT[nH][nM][nS]
MalformedDurations == {<<"P", "T">>, <<"P", "T", "x">>, <<"P", "T", "x", "y", "z">>, <<"P", "T", "5">>, <<"P", "T", "5", "X">>, <<"P", "T", "1", "M", "5", "H">>, <<"P", "T", "1", ".", "5", "S">>, <<"P", "1", "D">>,
                       <<"1", "H">>, <<"5", "M">>, <<"p", "t", "5", "m">>, <<"x">>}

\* script blocks around a duration value d
VideoObject(d) == Block(TRUE, "object", "VideoObject", d)

DurationValues ==
    {DurationText(t) : t \in WellFormedDurations \cup MalformedDurations \cup {<< >>}}
        \cup {NoDuration, DurationOther(TRUE), DurationOther(FALSE)}

LdJsonLists ==
    {<< >>}
        \cup {<<VideoObject(d)>> : d \in DurationValues}
        \cup {<<Block(FALSE, "object", "", NoDuration), VideoObject(DurationText(<<"P", "T", "5", "M">>))>>,
              <<Block(TRUE, "scalar", "", NoDuration), VideoObject(DurationText(<<"P", "T", "5", "M">>))>>,
              <<Block(TRUE, "empty_list", "", NoDuration), VideoObject(DurationText(<<"P", "T", "5", "M">>))>>,
              <<Block(TRUE, "object", "WebSite", DurationText(<<"P", "T", "4", "2", "S">>)),
                VideoObject(DurationText(<<"P", "T", "5", "M">>))>>,
              <<Block(TRUE, "list", "VideoObject", DurationText(<<"P", "T", "4", "2", "S">>))>>,
              <<VideoObject(NoDuration), VideoObject(DurationText(<<"P", "T", "5", "M">>))>>,
              <<VideoObject(DurationText(<<"x">>)), VideoObject(DurationText(<<"P", "T", "5", "M">>))>>,
              <<VideoObject(DurationOther(TRUE)), VideoObject(DurationText(<<"P", "T", "5", "M">>))>>}

MetaPages ==
    {Unreachable("network"), Unreachable("http")}
        \cup {Page(Tag(<<"T">>), NoTag, Tag(<<"D">>), l) : l \in LdJsonLists}
        \cup {Page(ot, t, od, << >>) : ot \in {NoTag, BareTag, Tag(<<"T">>)},
                                       t \in {NoTag, Tag(<<"T", " ", "-", " ", "Y", "o", "u", "T", "u", "b", "e">>)},
                                       od \in {NoTag, BareTag, Tag(<<"D">>)}}

MetaInit ==
    /\ LimiterUnused
    /\ HandlersIdle
    /\ file \in Files
    /\ NoFetch
    /\ youtube_url = Str(VideoUrl)
    /\ extracted = [done |-> TRUE, id |-> Some(VideoId)]
    /\ hpc = "off"
    /\ body = EmptyObject
    /\ watch_page \in MetaPages
    /\ response = NoResponse
    /\ steps = << >>
    /\ requests = 0
    /\ results = << >>
    /\ metadata = NoMetadata

\* one call of get_video_metadata(video_id)
GetMetadata ==
    /\ ~metadata.done
    /\ metadata' = Returns(get_video_metadata(file, extracted.id.id, watch_page))
    /\ UNCHANGED <<rlVars, raceVars, file, fetchVars, exVars>>
    /\ UNCHANGED <<hpc, body, watch_page, response, steps, requests, results>>

MetaNext == GetMetadata

SpecMeta == MetaInit /\ [][MetaNext]_vars

\* the page holds one VideoObject block whose duration is the text t
DurationIs(t) ==
    /\ watch_page.ok
    /\ watch_page.ld_json = <<VideoObject(DurationText(t))>>

\* the number a component counts as
Counts(n) == IF n = Absent THEN 0 ELSE n

\* "<h>h <m>m <s>s", "<m>m <s>s" or "<s>s"
Formatted(h, m, sec) ==
    IF Counts(h) > 0
    THEN Numerals[Counts(h)] \o <<"h", " ">> \o Numerals[Counts(m)] \o <<"m", " ">>
            \o Numerals[Counts(sec)] \o <<"s">>
    ELSE IF Counts(m) > 0
    THEN Numerals[Counts(m)] \o <<"m", " ">> \o Numerals[Counts(sec)] \o <<"s">>
    ELSE Numerals[Counts(sec)] \o <<"s">>

\* C14: a well-formed PT[nH][nM][nS] on a VideoObject is reported as
\* "<h>h <m>m <s>s" when hours > 0, else "<m>m <s>s" when minutes > 0, else
\* "<s>s", an absent component counting as 0: PT1H5M12S gives "1h 5m 12s",
\* PT5M gives "5m 0s", PT42S gives "42s".
C14_DurationFormat ==
    metadata.done =>
        /\ \A h, m, sec \in ComponentValues :
              DurationIs(IsoDuration(h, m, sec)) => metadata.value.duration = Formatted(h, m, sec)
        /\ DurationIs(<<"P", "T", "1", "H", "5", "M", "1", "2", "S">>) => metadata.value.duration = <<"1", "h", " ", "5", "m", " ", "1", "2", "s">>
        /\ DurationIs(<<"P", "T", "5", "M">>) => metadata.value.duration = <<"5", "m", " ", "0", "s">>
        /\ DurationIs(<<"P", "T", "4", "2", "S">>) => metadata.value.duration = <<"4", "2", "s">>

\* PT1H5M12S was formatted
C14_Witness ==
    /\ metadata.done
    /\ DurationIs(<<"P", "T", "1", "H", "5", "M", "1", "2", "S">>)
    /\ metadata.value.duration = <<"1", "h", " ", "5", "m", " ", "1", "2", "s">>

\* the page's VideoObject has no duration, or one that is no PT[nH][nM][nS]
\* with at least one component
MalformedOrMissing ==
    /\ watch_page.ok
    /\ \E d \in DurationValues :
          /\ watch_page.ld_json = <<VideoObject(d)>>
          /\ d.kind = "string" => d.text \notin (WellFormedDurations \ {<<"P", "T">>})

\* C15: a duration that is absent, does not start with "PT", or starts with
\* "PT" without a well-formed sequence of components after it ("PT" alone,
\* "PT" and other characters) is reported as "Unknown".
C15_MalformedIsUnknown ==
    metadata.done /\ MalformedOrMissing => metadata.value.duration = Unknown

----------------------------------------------------------------------------
(* Claims about the diagnostics and the fallthrough of fetch_transcript *)

Failed == fpc = "done" /\ ~result.success

\* the default method, the language method and the enumeration all raised
AllRaised ==
    /\ Len(provider_calls) = 3
    /\ \A i \in DOMAIN provider_calls : ~provider_calls[i].ok

\* the enumeration returned, and no track was there or none delivered text
NoTrackWithText ==
    /\ Len(provider_calls) >= 3
    /\ provider_calls[3].call = "list_transcripts" /\ provider_calls[3].ok
    /\ \A i \in DOMAIN provider_calls :
          provider_calls[i].call = "fetch" => provider_calls[i].text = << >>

\* the default or the language method returned segments that join to ""
EmptyWithoutRaising ==
    LET last == provider_calls[Len(provider_calls)]
    IN  /\ provider_calls # << >>
        /\ last.call \in {"get_transcript", "get_transcript_languages"}
        /\ last.ok /\ last.text = << >>

\* C16: when every strategy fails the message tells the stage: 'No transcript
\* available: ' and the first 100 characters of the default method's error
\* when all three raised; 'No accessible transcripts found' when the
\* enumeration returned but no track was there or none delivered text; 'No
\* transcript text extracted' when a method returned an empty text.
C16_DiagnosticByStage ==
    Failed =>
        /\ AllRaised =>
              result.error = Message("No transcript available: ", Take(e1, ErrCut))
        /\ NoTrackWithText =>
              result.error = Message("No accessible transcripts found", << >>)
        /\ EmptyWithoutRaising =>
              result.error = Message("No transcript text extracted", << >>)

\* C17: a strategy that produced no text, by raising or by returning an empty
\* text, is followed by the next one; fetch_transcript reports failure only
\* after the default method, the language method, the enumeration and every
\* listed track have been tried.
C17_FallsThroughOnEmptyText ==
    Failed =>
        /\ Len(provider_calls) >= 3
        /\ provider_calls[3].ok => Len(provider_calls) = 3 + tracks

----------------------------------------------------------------------------
(* Claim about the age at which an entry is dropped *)

\* entries of the stored list that are at most 60 seconds old at time t
AtMostWindowOld(timestamps, t) == {i \in DOMAIN timestamps : t - timestamps[i] <= WINDOW}

\* C18: a call of rate_limit_check drops only the entries older than 60
\* seconds; an entry of age exactly 60 is retained and counted, so after the
\* call the list holds every entry that was at most 60 seconds old, and the
\* new one if the call was admitted.
C18_DropsOnlyOlderThanWindow ==
    [][calls' = calls + 1
          => Len(request_timestamps')
                = Cardinality(AtMostWindowOld(request_timestamps, clock))
                    + (IF lastResult' = Returned(TRUE) THEN 1 ELSE 0)]_vars

----------------------------------------------------------------------------
(* Claim about the merge of the metadata into the response *)

\* C19: in the response of POST /api/transcript the metadata adds only title,
\* description and duration; success, video_id, url (as the client submitted
\* it), transcript, transcript_length and timestamp are as assembled before
\* the merge.
C19_MetadataIsAdditive ==
    Responded /\ response.status \in {200, 404} =>
        /\ response.data.success = result.success
        /\ response.data.video_id = extracted.id.id
        /\ response.data.url = body.url.text
        /\ response.data.transcript = result.text
        /\ response.data.transcript_length = Len(result.text)
        /\ response.data.timestamp = clock
        /\ DOMAIN response.data \subseteq
              {"success", "video_id", "url", "transcript", "transcript_length",
               "timestamp", "error"} \cup (IF IncludeMetadata(body) THEN MetadataKeys ELSE {})

----------------------------------------------------------------------------
(* All endpoints of the service, one request after the other *)

ApiBodies == {EmptyObject,
              NotJson,
              [url |-> Str(VideoUrl)],
              [url |-> Str(<<"h", "e", "l", "l", "o">>)],
              [url |-> Str(VideoUrl), include_metadata |-> FALSE]}

ApiBatchBodies == {EmptyObject,
                   NotJson,
                   [urls |-> NotAList],
                   [urls |-> List(Cycle(max_batch_size, 1))],
                   [urls |-> List(Cycle(max_batch_size + 1, 1))]}

ApiResponses == {<< >>, <<<<"a">>>>}

ApiErrTexts == {Repeat("x", 1)}

ApiPages == {Unreachable("network"),
             Page(Tag(<<"T">>), NoTag, Tag(<<"D">>), <<VideoObject(DurationText(<<"P", "T", "5", "M">>))>>)}

ApiNext ==
    \/ ReceiveRequest(ApiBodies)
    \/ Validate
    \/ Method1(ApiResponses, ApiErrTexts)
    \/ Method2(ApiResponses, ApiErrTexts)
    \/ Method3List(ApiErrTexts)
    \/ FetchTrack(ApiResponses, ApiErrTexts)
    \/ RespondWithMetadata(ApiPages)
    \/ RespondWithoutMetadata
    \/ ReceiveBatch(ApiBatchBodies)
    \/ BatchValidate
    \/ BatchNextUrl
    \/ BatchCollect
    \/ BatchRespond
    \/ HealthCheck
    \/ GetStatus
    \/ TestEndpoint

SpecApi == HttpInit /\ [][ApiNext]_vars

----------------------------------------------------------------------------
(* Claim about the order of the rules of extract_video_id *)

\* what the rule of a marker makes of s: the text after the last marker, up
\* to the first separator
RuleCandidate(s, marker, sep) == BeforeFirst(AfterLast(s, marker), <<sep>>)

\* the result a rule's candidate c may lead to: app.py returns it when it is
\* 11 characters long and fails otherwise, transcript.py returns it as it is
ByRule(c) ==
    IF file = "app"
    THEN extracted.id = (IF Len(c) = IdLength THEN Some(c) ELSE None)
    ELSE extracted.id = Some(c)

\* C21: the rules are tested in the order 'watch?v=', 'youtu.be/', 'embed/',
\* regex fallback, and the first whose substring occurs decides alone: the
\* fallback is consulted only when none of the three occurs, and a candidate
\* that is not 11 characters long makes app.py's extraction fail without a
\* later rule being tried.
C21_FirstMatchWins ==
    extracted.done /\ youtube_url.type = "string" =>
        LET s == youtube_url.text
        IN  IF Contains(s, WATCH) THEN ByRule(RuleCandidate(s, WATCH, "&"))
            ELSE IF Contains(s, YOUTU_BE) THEN ByRule(RuleCandidate(s, YOUTU_BE, "?"))
            ELSE IF Contains(s, EMBED) THEN ByRule(RuleCandidate(s, EMBED, "?"))
            ELSE extracted.id = RegexFallback(s)

\* 'watch?v=' occurs in the parameters of a youtu.be url of an 11-character
\* id: the first rule's candidate is too short, the second rule would have
\* given the id, and app.py's extraction failed
C21_Witness ==
    /\ extracted.done
    /\ file = "app"
    /\ youtube_url.type = "string"
    /\ Contains(youtube_url.text, WATCH)
    /\ Contains(youtube_url.text, YOUTU_BE)
    /\ Len(RuleCandidate(youtube_url.text, WATCH, "&")) # IdLength
    /\ RuleCandidate(youtube_url.text, YOUTU_BE, "?") = VideoId
    /\ extracted.id = None

----------------------------------------------------------------------------
(* Claim about the scan of the structured-data blocks *)

\* block b parses to a VideoObject whose duration is a string starting "PT"
HasPtDuration(b) ==
    /\ b.parses
    /\ b.root \in {"object", "list"}
    /\ b.type = "VideoObject"
    /\ b.duration.kind = "string"
    /\ StartsWith(b.duration.text, <<"P", "T">>)

\* C22: the blocks are scanned in document order and the scan ends only at the
\* first block a duration was parsed from; a block that does not parse, or
\* that is no VideoObject with a "PT" duration, does not end it, so the
\* duration reported is that of the first VideoObject block with a "PT"
\* duration whenever the page has one.
C22_ScanStopsAtFirstParsedDuration ==
    metadata.done /\ watch_page.ok =>
        LET blocks == watch_page.ld_json
            withPt == {i \in DOMAIN blocks : HasPtDuration(blocks[i])}
        IN  withPt # {} =>
                LET first == CHOOSE i \in withPt : \A j \in withPt : i <= j
                IN  metadata.value.duration
                        = FormatDuration(ParseDuration(blocks[first].duration.text))

====
